---- MODULE Spec2Model ----
(***************************************************************************)
(* Model of the Y4M demuxer of rust-av/format-y4m (src/demuxer.rs):        *)
(* the nom-based header parser `header`, the format probe `Des::probe`,    *)
(* and the two Demuxer operations `read_headers` and `read_event` of       *)
(* Y4MDemuxer.  Bytes are modelled as their numeric values, byte slices as *)
(* sequences of bytes.  A Rust panic (unwrap on Err/None, slice index out  *)
(* of bounds, split_at off a char boundary) is an outcome of its own,      *)
(* "Panic", distinct from a returned Ok or Err.                            *)
(***************************************************************************)
EXTENDS Integers, Sequences, FiniteSets, TLC

(* ------------------------------ bounds --------------------------------- *)
\* largest number of header tokens in a generated input
MaxTokens == 3
\* largest number of stream descriptors registered with GlobalInfo
MaxStreams == 2
\* the count of delivered Eof events saturates here
MaxEofs == 2

(* ------------------------------ bytes ---------------------------------- *)
SP == 32
NL == 10
\* "YUV4MPEG2 "
Magic == <<89, 85, 86, 52, 77, 80, 69, 71, 50, 32>>
\* score returned by a successful probe
ProbeScore == 10
\* index of the last byte of the probe prefix data[..=10]
ProbeLast == 10
Drop(s, n) == SubSeq(s, n + 1, Len(s))

(* --------------------- nom combinators used ---------------------------- *)
\* mutant of tag: the comparison stops two bytes short of the tag
tag_short(t, input) ==
    IF Len(input) >= Len(t) /\ SubSeq(input, 1, Len(t) - 2) = SubSeq(t, 1, Len(t) - 2)
    THEN [kind |-> "Ok", rest |-> Drop(input, Len(t))]
    ELSE [kind |-> "Err", rest |-> input]

\* nom::bytes::complete::tag: Ok(rest) when the input starts with t, else Err
\* (an input shorter than t is an Err too in the complete flavour).
tag(t, input) ==
    IF Len(input) >= Len(t) /\ SubSeq(input, 1, Len(t)) = t
    THEN [kind |-> "Ok", rest |-> Drop(input, Len(t))]
    ELSE [kind |-> "Err", rest |-> input]

\* position of the first space or newline of input, Len(input)+1 when none
RECURSIVE DelimPos(_, _)
DelimPos(input, k) ==
    IF k > Len(input) THEN k
    ELSE IF input[k] = SP \/ input[k] = NL THEN k
    ELSE DelimPos(input, k + 1)

\* take_till(|c| c == b' ' || c == b'\n'): never fails; the token is the run
\* before the first delimiter (the whole input when there is none), the rest
\* starts at the delimiter.
header_token(input) ==
    LET p == DelimPos(input, 1)
    IN  [rest |-> Drop(input, p - 1), token |-> SubSeq(input, 1, p - 1)]

(* ------------------------ std library pieces --------------------------- *)
IsCont(b) == b >= 128 /\ b <= 191

\* std::str::from_utf8(..).is_ok()
RECURSIVE IsUtf8(_)
IsUtf8(s) ==
    IF s = <<>> THEN TRUE
    ELSE LET b == s[1] n == Len(s) IN
      IF b < 128 THEN IsUtf8(Drop(s, 1))
      ELSE IF b >= 194 /\ b <= 223
        THEN n >= 2 /\ IsCont(s[2]) /\ IsUtf8(Drop(s, 2))
      ELSE IF b >= 224 /\ b <= 239
        THEN /\ n >= 3
             /\ IsCont(s[2]) /\ IsCont(s[3])
             /\ (b = 224 => s[2] >= 160)
             /\ (b = 237 => s[2] <= 159)
             /\ IsUtf8(Drop(s, 3))
      ELSE IF b >= 240 /\ b <= 244
        THEN /\ n >= 4
             /\ IsCont(s[2]) /\ IsCont(s[3]) /\ IsCont(s[4])
             /\ (b = 240 => s[2] >= 144)
             /\ (b = 244 => s[2] <= 143)
             /\ IsUtf8(Drop(s, 4))
      ELSE FALSE

\* str::is_char_boundary(1) on a valid UTF-8 string s
IsCharBoundary1(s) ==
    IF Len(s) = 1 THEN TRUE
    ELSE IF Len(s) = 0 THEN FALSE
    ELSE ~IsCont(s[2])

IsDigit(b) == b >= 48 /\ b <= 57

\* accumulate decimal digits left to right; -1 on a non-digit.  The overflow
\* error of usize needs a value of 20 digits; the values of the model have at
\* most four, so that branch is not reachable here and is left out.
RECURSIVE ParseDigits(_, _)
ParseDigits(s, acc) ==
    IF s = <<>> THEN acc
    ELSE IF ~IsDigit(s[1]) THEN -1
    ELSE ParseDigits(Drop(s, 1), acc * 10 + (s[1] - 48))

\* str::parse::<usize>(): the value, or -1 for Err.  An empty string, a lone
\* sign, a '-' sign and a non-digit are errors; one leading '+' is accepted.
parse_usize(val) ==
    IF val = <<>> THEN -1
    ELSE LET digits == IF val[1] = 43 THEN Drop(val, 1) ELSE val
         IN  IF digits = <<>> THEN -1 ELSE ParseDigits(digits, 0)

(* --------------------------- header parser ----------------------------- *)
HdrResult(k, r, w, h) == [kind |-> k, rest |-> r, width |-> w, height |-> h]

\* mutant of header_field: a field that is already set is not set again
header_field_first(token, width, height) ==
    LET id == token[1]
        v  == parse_usize(Drop(token, 1))
    IN  IF id = 87 THEN [width |-> IF v >= 0 /\ width = 0 THEN v ELSE width, height |-> height]
        ELSE IF id = 72 THEN [width |-> width, height |-> IF v >= 0 /\ height = 0 THEN v ELSE height]
        ELSE [width |-> width, height |-> height]

\* the match on the key character: W and H set their field when the value
\* parses, every other key (and an unparsable value) changes nothing
header_field(token, width, height) ==
    LET id == token[1]
        v  == parse_usize(Drop(token, 1))
    IN  IF id = 87 THEN [width |-> IF v >= 0 THEN v ELSE width, height |-> height]
        ELSE IF id = 72 THEN [width |-> width, height |-> IF v >= 0 THEN v ELSE height]
        ELSE [width |-> width, height |-> height]

\* the loop of `header`: one token per turn.  Panics: from_utf8(..).unwrap()
\* on a token that is not UTF-8, split_at(1) on an empty token or off a char
\* boundary, ii[0] on an empty rest (no delimiter left in the input).
RECURSIVE header_loop(_, _, _)
header_loop(i, width, height) ==
    LET tk    == header_token(i)
        ii    == tk.rest
        token == tk.token
    IN  IF ~IsUtf8(token) THEN HdrResult("Panic", <<>>, 0, 0)
        ELSE IF ~IsCharBoundary1(token) THEN HdrResult("Panic", <<>>, 0, 0)
        ELSE LET f == header_field(token, width, height) IN
             IF ii = <<>> THEN HdrResult("Panic", <<>>, 0, 0)
             ELSE IF ii[1] = NL THEN HdrResult("Ok", ii, f.width, f.height)
             ELSE header_loop(Drop(ii, 1), f.width, f.height)

\* fn header: the magic tag, the token loop, and Ok((input, Y4MHeader)) where
\* `input` is the parameter, that is the whole slice the function was given.
header_parse(input) ==
    LET t == tag(Magic, input)
    IN  IF t.kind = "Err" THEN HdrResult("Err", input, 0, 0)
        ELSE LET r == header_loop(t.rest, 0, 0)
             IN  IF r.kind = "Ok" THEN HdrResult("Ok", input, r.width, r.height)
                 ELSE r

\* Offset::offset: the distance from the start of `first` to the start of
\* `second`, a suffix of it
Offset(first, second) == Len(first) - Len(second)

(* ------------------------------ results -------------------------------- *)
\* what the last call returned: op is the operation, kind is Ok, Err or
\* Panic, seek the n of SeekFrom::Current(n), event the Event of read_event,
\* score the probe's u8, arg the bytes the call was given
Ret(op, kind, seek, event, score, arg) ==
    [op |-> op, kind |-> kind, seek |-> seek, event |-> event,
     score |-> score, arg |-> arg]

NoHeader == [some |-> FALSE, width |-> 0, height |-> 0]
SomeHeader(w, h) == [some |-> TRUE, width |-> w, height |-> h]

(* ------------------------------- probe --------------------------------- *)
\* Des::probe: header(&data[..=10]); the slice panics when data has fewer
\* than 11 bytes
probe(data) ==
    IF Len(data) <= ProbeLast THEN Ret("probe", "Panic", 0, "None", 0, data)
    ELSE LET r == header_parse(SubSeq(data, 1, ProbeLast + 1))
         IN  IF r.kind = "Panic" THEN Ret("probe", "Panic", 0, "None", 0, data)
             ELSE IF r.kind = "Ok" THEN Ret("probe", "Ok", 0, "None", ProbeScore, data)
             ELSE Ret("probe", "Ok", 0, "None", 0, data)

(* ------------------------- Demuxer operations -------------------------- *)
\* mutant of read_headers: a failed parse clears the stored header
read_headers_reset(h, inf, data) ==
    LET r == header_parse(data)
    IN  IF r.kind = "Ok"
        THEN [header |-> SomeHeader(r.width, r.height),
              info   |-> Append(inf, [width |-> r.width, height |-> r.height]),
              ret    |-> Ret("read_headers", "Ok", Offset(data, r.rest), "None", 0, data)]
        ELSE IF r.kind = "Err"
        THEN [header |-> NoHeader, info |-> inf,
              ret    |-> Ret("read_headers", "Err", 0, "None", 0, data)]
        ELSE [header |-> h, info |-> inf,
              ret    |-> Ret("read_headers", "Panic", 0, "None", 0, data)]

\* Y4MDemuxer::read_headers on self.header = h, GlobalInfo streams inf and
\* buf.data() = data
read_headers(h, inf, data) ==
    LET r == header_parse(data)
    IN  IF r.kind = "Ok"
        THEN [header |-> SomeHeader(r.width, r.height),
              info   |-> Append(inf, [width |-> r.width, height |-> r.height]),
              ret    |-> Ret("read_headers", "Ok", Offset(data, r.rest), "None", 0, data)]
        ELSE IF r.kind = "Err"
        THEN [header |-> h, info |-> inf,
              ret    |-> Ret("read_headers", "Err", 0, "None", 0, data)]
        ELSE [header |-> h, info |-> inf,
              ret    |-> Ret("read_headers", "Panic", 0, "None", 0, data)]

\* mutant of read_event: the end-of-input test is dropped, an empty queue
\* always reports Eof
read_event_eof_any(q, data) ==
    IF q # <<>>
    THEN [queue |-> Tail(q), ret |-> Ret("read_event", "Ok", 0, Head(q), 0, data)]
    ELSE [queue |-> q, ret |-> Ret("read_event", "Ok", 0, "Eof", 0, data)]

\* mutant of read_event: the unimplemented path returns Continue
read_event_continue(q, data) ==
    IF q # <<>>
    THEN [queue |-> Tail(q), ret |-> Ret("read_event", "Ok", 0, Head(q), 0, data)]
    ELSE IF data = <<>>
    THEN [queue |-> q, ret |-> Ret("read_event", "Ok", 0, "Eof", 0, data)]
    ELSE [queue |-> q, ret |-> Ret("read_event", "Ok", 0, "Continue", 0, data)]

\* Y4MDemuxer::read_event on self.queue = q and buf.data() = data
read_event(q, data) ==
    IF q # <<>>
    THEN [queue |-> Tail(q), ret |-> Ret("read_event", "Ok", 0, Head(q), 0, data)]
    ELSE IF data = <<>>
    THEN [queue |-> q, ret |-> Ret("read_event", "Ok", 0, "Eof", 0, data)]
    ELSE [queue |-> q, ret |-> Ret("read_event", "Err", 0, "None", 0, data)]

(* ------------------------------ inputs --------------------------------- *)
\* header tokens the inputs are built from:
\* "W1" "W23" "H4" "C4" "Wx" "" (an empty token), the lone byte C3 (not
\* UTF-8) and C3 A9 (one two-byte character)
Tokens == { <<87, 49>>, <<87, 50, 51>>, <<72, 52>>, <<67, 52>>, <<87, 120>>,
            <<>>, <<195>>, <<195, 169>> }

\* what follows the last token: a newline, nothing (the line is not complete
\* yet), a newline and the first byte of a frame
Endings == { <<NL>>, <<>>, <<NL, 70>> }

RECURSIVE Join(_)
Join(ts) ==
    IF ts = <<>> THEN <<>>
    ELSE IF Len(ts) = 1 THEN ts[1]
    ELSE ts[1] \o <<SP>> \o Join(Tail(ts))

TokenSeqs == UNION { [1..n -> Tokens] : n \in 0..MaxTokens }

GeneratedInputs == { Magic \o Join(ts) \o e : ts \in TokenSeqs, e \in Endings }

\* "YUV4MPEG2 W176 H144\nF", "YUV4MPEG2 H144 W176 C420\n", "YUV4MPEG2 W0 H0\n",
\* "YUV4MPEG2 W+1 H4\n"
SampleInputs ==
    { Magic \o <<87, 49, 55, 54, 32, 72, 49, 52, 52, 10, 70>>,
      Magic \o <<72, 49, 52, 52, 32, 87, 49, 55, 54, 32, 67, 52, 50, 48, 10>>,
      Magic \o <<87, 48, 32, 72, 48, 10>>,
      Magic \o <<87, 43, 49, 32, 72, 52, 10>> }

\* inputs without the magic: the empty input, "FOOBAR", "YUV4MPEG2" (the
\* magic short of its space), "YUV4MPEG3 W1 H4\n", "YUV4MPEGx W1 H4\n",
\* "FOOBAR W1 H4\n"
OtherInputs ==
    { <<>>,
      <<70, 79, 79, 66, 65, 82>>,
      SubSeq(Magic, 1, 9),
      <<89, 85, 86, 52, 77, 80, 69, 71, 51, 32, 87, 49, 32, 72, 52, 10>>,
      <<89, 85, 86, 52, 77, 80, 69, 71, 120, 32, 87, 49, 32, 72, 52, 10>>,
      <<70, 79, 79, 66, 65, 82, 32, 87, 49, 32, 72, 52, 10>> }

Inputs == GeneratedInputs \cup SampleInputs \cup OtherInputs

\* what the host's buffer can hold at a later call: nothing (the input is
\* exhausted), frame bytes "F", another header line "YUV4MPEG2 W2 H1\n"
HostBufs == { <<>>, <<70>>, Magic \o <<87, 50, 32, 72, 49, 10>> }

(* ------------------------------- state --------------------------------- *)
VARIABLES
    header,   \* Y4MDemuxer.header: Option<Y4MHeader>
    queue,    \* Y4MDemuxer.queue: VecDeque<Event>
    info,     \* the streams added to GlobalInfo
    buf,      \* buf.data(): the bytes the host's Buffered holds
    ret,      \* the result of the last call
    eofs,     \* how many times read_event returned Eof (saturating)
    evErr     \* read_event has returned an error

vars == <<header, queue, info, buf, ret, eofs, evErr>>

\* Y4MDemuxer::new() is Default::default(): no header, an empty queue
Init ==
    /\ header = NoHeader
    /\ queue = <<>>
    /\ info = <<>>
    /\ buf \in Inputs
    /\ ret = Ret("none", "none", 0, "None", 0, <<>>)
    /\ eofs = 0
    /\ evErr = FALSE

\* a panic ends the process: nothing is called after it
Alive == ret.kind # "Panic"

\* the host calls read_headers and, on Ok, seeks its reader by the result
ReadHeaders ==
    /\ Alive
    /\ LET r == read_headers(header, info, buf) IN
         /\ r.ret.kind = "Ok" => Len(info) < MaxStreams
         /\ header' = r.header
         /\ info' = r.info
         /\ ret' = r.ret
         /\ buf' = IF r.ret.kind = "Ok" THEN Drop(buf, r.ret.seek) ELSE buf
    /\ UNCHANGED <<queue, eofs, evErr>>

\* the host calls read_event and, on Ok, seeks its reader by the result
ReadEvent ==
    /\ Alive
    /\ LET r == read_event(queue, buf) IN
         /\ queue' = r.queue
         /\ ret' = r.ret
         /\ buf' = IF r.ret.kind = "Ok" THEN Drop(buf, r.ret.seek) ELSE buf
         /\ eofs' = IF r.ret.kind = "Ok" /\ r.ret.event = "Eof" /\ eofs < MaxEofs
                    THEN eofs + 1 ELSE eofs
         /\ evErr' = (evErr \/ r.ret.kind = "Err")
    /\ UNCHANGED <<header, info>>

\* the host probes the bytes it holds
Probe ==
    /\ Alive
    /\ ret' = probe(buf)
    /\ UNCHANGED <<header, queue, info, buf, eofs, evErr>>

\* between two calls the host's reader consumes or refills its buffer
HostBuffer ==
    /\ Alive
    /\ \E b \in HostBufs : b # buf /\ buf' = b
    /\ UNCHANGED <<header, queue, info, ret, eofs, evErr>>

Next == ReadHeaders \/ ReadEvent \/ Probe \/ HostBuffer

Spec == Init /\ [][Next]_vars

(* ---------------------- vocabulary of the claims ----------------------- *)
StartsWithMagic(d) == Len(d) >= Len(Magic) /\ SubSeq(d, 1, Len(Magic)) = Magic

HasNewline(d) == \E k \in 1..Len(d) : d[k] = NL

\* number of bytes from the start of d through its first newline
HeaderLineLen(d) ==
    CHOOSE k \in 1..Len(d) : d[k] = NL /\ \A j \in 1..(k - 1) : d[j] # NL

\* the bytes of the header line between the magic and the newline
LineBody(d) == SubSeq(d, Len(Magic) + 1, HeaderLineLen(d) - 1)

\* the pieces of s between its spaces
RECURSIVE SplitAtSpaces(_, _, _)
SplitAtSpaces(s, k, cur) ==
    IF k > Len(s) THEN <<cur>>
    ELSE IF s[k] = SP THEN <<cur>> \o SplitAtSpaces(s, k + 1, <<>>)
    ELSE SplitAtSpaces(s, k + 1, Append(cur, s[k]))

LineTokens(d) == SplitAtSpaces(LineBody(d), 1, <<>>)

RECURSIVE Decimal(_)
Decimal(digits) ==
    IF digits = <<>> THEN 0
    ELSE 10 * Decimal(SubSeq(digits, 1, Len(digits) - 1)) + (digits[Len(digits)] - 48)

IsNumberToken(t) == Len(t) >= 2 /\ \A k \in 2..Len(t) : t[k] >= 48 /\ t[k] <= 57

\* a newline-terminated header line of single-space-separated text tokens,
\* whose W and H tokens carry a decimal number
WellFormedLine(d) ==
    /\ StartsWithMagic(d)
    /\ HasNewline(d)
    /\ \A k \in 1..Len(LineTokens(d)) :
         LET t == LineTokens(d)[k] IN
           /\ t # <<>>
           /\ \A j \in 1..Len(t) : t[j] > 32 /\ t[j] < 127
           /\ t[1] \in {87, 72} => IsNumberToken(t)

\* the value of the last token of the line with the given key, 0 without one
LastValue(d, key) ==
    LET ts  == LineTokens(d)
        idx == { k \in 1..Len(ts) : ts[k][1] = key }
    IN  IF idx = {} THEN 0
        ELSE LET m == CHOOSE k \in idx : \A j \in idx : j <= k
             IN  Decimal(Tail(ts[m]))

OkEof(r) == r.op = "read_event" /\ r.kind = "Ok" /\ r.event = "Eof"

(* ------------------------------- claims -------------------------------- *)
\* C1: after a successful read_headers the returned seek offset is the number
\* of bytes from the start of the input through the newline that ends the
\* header line.
C1_SeekPastHeaderLine ==
    (ret.op = "read_headers" /\ ret.kind = "Ok")
        => ret.seek = HeaderLineLen(ret.arg)

C3_ProbeAcceptsMagic ==
    (ret.op = "probe" /\ Len(ret.arg) >= 11 /\ StartsWithMagic(ret.arg))
        => (ret.kind = "Ok" /\ ret.score = ProbeScore)

\* C4: probe on bytes that do not start with the magic, short inputs
\* included, returns 0 as a normal result and does not panic.
C4_ProbeRejectsOthers ==
    (ret.op = "probe" /\ ~StartsWithMagic(ret.arg))
        => (ret.kind = "Ok" /\ ret.score = 0)

\* C5: read_headers on an input that starts with the magic but holds no
\* newline returns an error, registers no stream and stores no header.
C5_IncompleteLineIsError ==
    [][(ReadHeaders /\ StartsWithMagic(buf) /\ ~HasNewline(buf)) =>
          (ret'.kind = "Err" /\ UNCHANGED <<header, info>>)]_vars

\* C6: read_headers on an input that does not start with the magic returns
\* an error and leaves the header, the queue and the registered streams as
\* they were.
C6_NoMagicNoEffect ==
    [][(ReadHeaders /\ ~StartsWithMagic(buf)) =>
          (ret'.kind = "Err" /\ UNCHANGED <<header, queue, info>>)]_vars

C6_RejectedOpen ==
    /\ ret.op = "read_headers" /\ ret.kind = "Err"
    /\ Len(ret.arg) > Len(Magic) /\ ~StartsWithMagic(ret.arg)
    /\ ~header.some /\ info = <<>>

\* C7: for a well-formed header line the parsed width and height are the
\* values of the last W and the last H token, 0 for an absent key, and the
\* other tokens change nothing.
C7_LastOccurrenceWins ==
    (ret.op = "read_headers" /\ WellFormedLine(ret.arg)) =>
        /\ ret.kind = "Ok"
        /\ header = SomeHeader(LastValue(ret.arg, 87), LastValue(ret.arg, 72))
        /\ info[Len(info)] = [width  |-> LastValue(ret.arg, 87),
                              height |-> LastValue(ret.arg, 72)]

C7_RepeatedKeyAmongOthers ==
    /\ ret.op = "read_headers" /\ ret.kind = "Ok" /\ WellFormedLine(ret.arg)
    /\ LET ts == LineTokens(ret.arg) IN
         /\ \E i, j \in 1..Len(ts) :
               i < j /\ ts[i][1] = 87 /\ ts[j][1] = 87 /\ ts[i] # ts[j]
         /\ \E k \in 1..Len(ts) : ts[k][1] \notin {87, 72}
    /\ header.width = LastValue(ret.arg, 87)

\* C8: after a successful read_headers, with the reader advanced by the
\* returned offset, read_event returns no error and no MoreDataNeeded or
\* NewStream event; when the input was the header line alone it returns Eof.
C8_DemuxReachesEof ==
    [][(/\ ret.op = "read_headers" /\ ret.kind = "Ok"
        /\ buf = Drop(ret.arg, ret.seek)
        /\ ReadEvent) =>
          /\ ret'.kind = "Ok"
          /\ ret'.event \notin {"MoreDataNeeded", "NewStream"}
          /\ Len(ret.arg) = HeaderLineLen(ret.arg) => ret'.event = "Eof"]_vars

====
